---- MODULE Spec2Model ----
(***************************************************************************)
(* State-machine model of the stat-check engine of arxcode:                *)
(*   world/stat_checks/check_maker.py  (rolls, comparison, ranking,        *)
(*                                      opposed and group checks,          *)
(*                                      private and group announcements)   *)
(*   server/utils/notifier.py          (recipient sets and delivery)       *)
(* Strings that the code formats are modelled as sequences of tokens.      *)
(* A Python None is "None" for a name and Unset (the empty tuple) for a    *)
(* value that is a number or an object once it is set.                     *)
(***************************************************************************)
EXTENDS Integers, Sequences, FiniteSets, TLC

VARIABLES
    sheet,       \* what the trait / StatWeight / modifier lookups return
    roll,        \* one SimpleRoll object (single-roll lifecycle)
    executions,  \* how many times roll.execute() has been called
    rendered,    \* texts returned by the reads of roll.roll_message since the last execute()
    contest,     \* a ContestedCheckMaker run: rolls made, RollResults, announcement
    opposing,    \* an OpposingRolls object and what it announced
    group,       \* a GroupCheckMaker run: its GroupRoll
    world,       \* the characters' roles and the contents of the room at hand
    notifier,    \* one Notifier object
    generated,   \* whether generate() has been called since the world and the flags last changed
    notified,    \* the (msg, options) of the notify() calls made, in order
    names_read,  \* what the last read of a name-list property of the notifier returned
    command,     \* the @check/contest command given last: its input and how it ended
    priv,        \* a PrivateCheckMaker run: its roll and what it announced
    inbox,       \* per character, the msg() calls received, in order
    room_out     \* the broadcasts made with msg_location_or_contents, in order

engine == <<sheet, roll, executions, rendered, contest, opposing, group>>
audience == <<world, notifier, generated, notified, names_read, command, priv, inbox, room_out>>
vars == <<sheet, roll, executions, rendered, contest, opposing, group,
          world, notifier, generated, notified, names_read, command, priv, inbox, room_out>>

----------------------------------------------------------------------------
(* Bounds of the model *)

MaxDraw == 7          \* the low draws 1..MaxDraw of the die are sampled, with the top face
NumBands == 2         \* RollResult instances (bands) in the table
MaxWeight == 1        \* weighted contributions range over 0..MaxWeight
MaxRating == 1        \* difficulty values range over 0..MaxRating
MaxExecutions == 2    \* execute() calls on the one roll
MaxReads == 2         \* reads of roll_message between two execute() calls
MaxRolls == 3         \* characters in a contested check
MaxHelpers == 2       \* helpers in a group check

(* Program constants *)

TIE_THRESHOLD == 5
DieSides == 100

None == "None"
Unset == <<>>

Abs(x) == IF x < 0 THEN -x ELSE x

\* randint(1, 100): the draws the model samples
Draws == (1..MaxDraw) \cup {DieSides}

\* RollResult instances, each with its value
Bands == [value : 1..NumBands]
Weights == 0..MaxWeight
Ratings == [value : 0..MaxRating]
Sheets == [stat_alone : Weights, stat_paired : Weights, skill : Weights,
           knack : Weights, has_mods : BOOLEAN]

----------------------------------------------------------------------------
(* External lookups *)

\* StatWeight.get_weighted_value_for_stat(base, only_stat)
get_weighted_value_for_stat(sh, only_stat) ==
    IF only_stat THEN sh.stat_alone ELSE sh.stat_paired

\* StatWeight.get_weighted_value_for_skill(base)
get_weighted_value_for_skill(sh) == sh.skill

\* StatWeight.get_weighted_value_for_knack(base)
get_weighted_value_for_knack(sh) == sh.knack

\* NaturalRollType.get_roll_type(raw): a pure function of the raw draw
CritFloor == 96
BotchCeiling == 5
get_roll_type(raw) ==
    IF raw >= CritFloor THEN "crit"
    ELSE IF raw <= BotchCeiling THEN "botch"
    ELSE None

\* RollResult.render(**context): the band's template with the context substituted
render(band, ctx) ==
    <<"result", band, ctx.character, ctx.roll, ctx.natural_roll_type>>

----------------------------------------------------------------------------
(* SimpleRoll *)

SimpleRoll_init(character, stat, skill, rating) ==
    [character |-> character,
     stat |-> stat,
     skill |-> skill,
     result_value |-> Unset,
     result_message |-> Unset,
     rating |-> rating,
     raw_roll |-> Unset,
     roll_result_object |-> Unset,
     natural_roll_type |-> None,
     tie_threshold |-> TIE_THRESHOLD]

get_roll_value_for_rating(r) == r.rating.value

get_roll_value_for_stat(r, sh) ==
    IF r.stat = None THEN 0
    ELSE get_weighted_value_for_stat(sh, r.skill = None)

get_roll_value_for_skill(r, sh) ==
    IF r.skill = None THEN 0
    ELSE get_weighted_value_for_skill(sh)

get_roll_value_for_knack(r, sh) ==
    IF ~sh.has_mods THEN 0
    ELSE get_weighted_value_for_knack(sh)

get_roll_value_for_traits(r, sh) ==
    get_roll_value_for_stat(r, sh) + get_roll_value_for_skill(r, sh)

check_for_crit_or_botch(raw) == get_roll_type(raw)

get_context(r) ==
    [character |-> r.character,
     roll |-> r.result_value,
     result |-> r.roll_result_object,
     natural_roll_type |-> r.natural_roll_type,
     crit |-> IF r.natural_roll_type = "crit" THEN r.natural_roll_type ELSE None,
     botch |-> IF r.natural_roll_type \in {None, "crit"} THEN None ELSE r.natural_roll_type]

\* execute() that keeps a result_message it has already rendered
SimpleRoll_execute_stale_message(r, sh, raw, band) ==
    LET val == get_roll_value_for_traits(r, sh) + get_roll_value_for_knack(r, sh)
               - get_roll_value_for_rating(r) + raw
        r1 == [r EXCEPT !.raw_roll = <<raw>>,
                        !.result_value = <<val>>,
                        !.natural_roll_type = check_for_crit_or_botch(raw),
                        !.roll_result_object = <<band>>]
    IN  IF r.result_message # Unset THEN r1
        ELSE [r1 EXCEPT !.result_message = render(band, get_context(r1))]

\* execute() that adds the rating's value instead of subtracting it
SimpleRoll_execute_adds_rating(r, sh, raw, band) ==
    LET val == get_roll_value_for_traits(r, sh) + get_roll_value_for_knack(r, sh)
               + get_roll_value_for_rating(r) + raw
        r1 == [r EXCEPT !.raw_roll = <<raw>>,
                        !.result_value = <<val>>,
                        !.natural_roll_type = check_for_crit_or_botch(raw),
                        !.roll_result_object = <<band>>]
    IN  [r1 EXCEPT !.result_message = render(band, get_context(r1))]

\* execute() with the die showing raw and the band lookup returning band; the
\* band is whatever RollResult.get_instance_for_roll returns for val and the roll type
SimpleRoll_execute(r, sh, raw, band) ==
    LET val == get_roll_value_for_traits(r, sh) + get_roll_value_for_knack(r, sh)
               - get_roll_value_for_rating(r) + raw
        r1 == [r EXCEPT !.raw_roll = <<raw>>,
                        !.result_value = <<val>>,
                        !.natural_roll_type = check_for_crit_or_botch(raw),
                        !.roll_result_object = <<band>>]
    IN  [r1 EXCEPT !.result_message = render(band, get_context(r1))]

get_check_string(stat, skill, rating) ==
    <<stat>> \o (IF skill # None THEN <<"and", skill>> ELSE <<>>) \o <<"at", rating>>

roll_prefix(r) ==
    <<r.character, "checks">> \o get_check_string(r.stat, r.skill, r.rating)

\* roll_message that renders anew at each read
roll_message_redrawn(r) ==
    roll_prefix(r) \o <<".", r.result_message, Len(rendered)>>

roll_message(r) ==
    roll_prefix(r) \o <<".", r.result_message>>

Resolved(r) == r.raw_roll # Unset

----------------------------------------------------------------------------
(* Comparison of rolls *)

check_rolls_tied(roll1, roll2, tie_value) ==
    IF roll1.roll_result_object # roll2.roll_result_object THEN FALSE
    ELSE Abs(roll1.result_value[1] - roll2.result_value[1]) < tie_value

\* __lt__ that forgets the bands
SimpleRoll_lt_by_value(a, b) ==
    (a.result_value[1] + a.tie_threshold) < b.result_value[1]

\* SimpleRoll.__lt__
SimpleRoll_lt(a, b) ==
    IF a.roll_result_object = b.roll_result_object
    THEN (a.result_value[1] + a.tie_threshold) < b.result_value[1]
    ELSE a.roll_result_object[1].value < b.roll_result_object[1].value

\* SimpleRoll.__eq__
SimpleRoll_eq(a, b) ==
    /\ a.roll_result_object = b.roll_result_object
    /\ Abs(a.result_value[1] - b.result_value[1]) <= a.tie_threshold

\* functools.total_ordering: __gt__ from __lt__ and __eq__
SimpleRoll_gt(a, b) == ~SimpleRoll_lt(a, b) /\ ~SimpleRoll_eq(a, b)

----------------------------------------------------------------------------
(* sorted(rolls, reverse=True): list.sort of a list shorter than 64, which *)
(* is one run found by count_run and a binary insertion sort of the rest,  *)
(* between two reversals that keep the sort stable                         *)

Reverse(s) == [i \in 1..Len(s) |-> s[Len(s) + 1 - i]]

RECURSIVE count_run_from(_, _, _)
count_run_from(s, n, descending) ==
    IF n = Len(s) THEN n
    ELSE IF descending
         THEN IF SimpleRoll_lt(s[n + 1], s[n]) THEN count_run_from(s, n + 1, descending) ELSE n
         ELSE IF SimpleRoll_lt(s[n + 1], s[n]) THEN n ELSE count_run_from(s, n + 1, descending)

count_run(s) ==
    IF Len(s) = 1 THEN [n |-> 1, descending |-> FALSE]
    ELSE LET descending == SimpleRoll_lt(s[2], s[1])
         IN  [n |-> count_run_from(s, 2, descending), descending |-> descending]

\* the binary search of binarysort: where the pivot goes in s[l..r-1]
RECURSIVE binary_search(_, _, _, _)
binary_search(s, pivot, l, r) ==
    LET p == l + ((r - l) \div 2)
        l1 == IF SimpleRoll_lt(pivot, s[p]) THEN l ELSE p + 1
        r1 == IF SimpleRoll_lt(pivot, s[p]) THEN p ELSE r
    IN  IF l1 < r1 THEN binary_search(s, pivot, l1, r1) ELSE l1

RECURSIVE binarysort(_, _)
binarysort(s, start) ==
    IF start > Len(s) THEN s
    ELSE LET pivot == s[start]
             l == binary_search(s, pivot, 1, start)
             moved == [i \in 1..Len(s) |->
                          IF i < l THEN s[i]
                          ELSE IF i = l THEN pivot
                          ELSE IF i <= start THEN s[i - 1]
                          ELSE s[i]]
         IN  binarysort(moved, start + 1)

list_sort(s) ==
    IF Len(s) < 2 THEN s
    ELSE LET run == count_run(s)
             s1 == IF run.descending
                   THEN [i \in 1..Len(s) |-> IF i <= run.n THEN s[run.n + 1 - i] ELSE s[i]]
                   ELSE s
         IN  binarysort(s1, run.n + 1)

\* an ascending sort reversed, which turns the order of tied rolls around
sorted_then_reversed(s) == Reverse(list_sort(s))

\* sorted(rolls, reverse=True)
sorted_reverse(s) ==
    IF Len(s) < 2 THEN s ELSE Reverse(list_sort(Reverse(s)))

----------------------------------------------------------------------------
(* RollResults *)

RollResults_init(rolls) ==
    [raw_rolls |-> sorted_reverse(rolls), results |-> <<>>]

\* a pass that compares with the last member of the open group
rank_one_against_previous(results, r) ==
    IF results # <<>> /\ SimpleRoll_eq(results[Len(results)][Len(results[Len(results)])], r)
    THEN [results EXCEPT ![Len(results)] = Append(@, r)]
    ELSE Append(results, <<r>>)

\* one pass of the loop of rank_results
rank_one(results, r) ==
    LET is_tie == /\ results # <<>>
                  /\ results[Len(results)] # <<>>
                  /\ SimpleRoll_eq(results[Len(results)][1], r)
    IN  IF is_tie
        THEN [results EXCEPT ![Len(results)] = Append(@, r)]
        ELSE Append(results, <<r>>)

RECURSIVE rank_from(_, _, _)
rank_from(results, raw_rolls, i) ==
    IF i > Len(raw_rolls) THEN results
    ELSE rank_from(rank_one(results, raw_rolls[i]), raw_rolls, i + 1)

rank_results(rr) ==
    [rr EXCEPT !.results = rank_from(rr.results, rr.raw_rolls, 1)]

\* get_result_string: one line per group
result_line(grp) ==
    IF Len(grp) > 1
    THEN <<"TIE:">> \o [i \in 1..Len(grp) |-> grp[i].result_message]
    ELSE <<grp[1].result_message>>

get_result_string(rr) ==
    [g \in 1..Len(rr.results) |-> result_line(rr.results[g])]

----------------------------------------------------------------------------
(* ContestedCheckMaker *)

\* perform_contested_check_and_announce: one roll per character, ranked, announced
perform_contested_check(characters, prefix_string, stat, skill, rating, sh, draws) ==
    LET rolls == [i \in 1..Len(characters) |->
                     SimpleRoll_execute(SimpleRoll_init(characters[i], stat, skill, rating),
                                        sh, draws[i].raw, draws[i].band)]
        rr == rank_results(RollResults_init(rolls))
    IN  [phase |-> "ranked",
         rolls |-> rolls,
         raw_rolls |-> rr.raw_rolls,
         results |-> rr.results,
         resorted |-> <<>>,
         room |-> << <<prefix_string, get_result_string(rr)>> >>]

----------------------------------------------------------------------------
(* OpposingRolls *)

\* announce() that sorts without reverse=True
OpposingRolls_announce_lowest_first(o, sh, d1, d2) ==
    LET r1 == SimpleRoll_execute(o.roll1, sh, d1.raw, d1.band)
        r2 == SimpleRoll_execute(o.roll2, sh, d2.raw, d2.band)
        rolls == list_sort(<<r1, r2>>)
        result == IF SimpleRoll_eq(r1, r2) THEN <<"tied">>
                  ELSE <<"winner", rolls[1].character>>
        msg == <<o.caller, o.target, roll_message(r1), roll_message(r2), result>>
    IN  [o EXCEPT !.phase = "announced", !.roll1 = r1, !.roll2 = r2,
                  !.room = Append(o.room, msg)]

\* announce(): both rolls executed, one message to the caller's room
OpposingRolls_announce(o, sh, d1, d2) ==
    LET r1 == SimpleRoll_execute(o.roll1, sh, d1.raw, d1.band)
        r2 == SimpleRoll_execute(o.roll2, sh, d2.raw, d2.band)
        rolls == sorted_reverse(<<r1, r2>>)
        result == IF SimpleRoll_eq(r1, r2) THEN <<"tied">>
                  ELSE <<"winner", rolls[1].character>>
        msg == <<o.caller, o.target, roll_message(r1), roll_message(r2), result>>
    IN  [o EXCEPT !.phase = "announced", !.roll1 = r1, !.roll2 = r2,
                  !.room = Append(o.room, msg)]

OpposingRolls_init(roll1, roll2, caller, target) ==
    [phase |-> "ready", roll1 |-> roll1, roll2 |-> roll2,
     caller |-> caller, target |-> target, room |-> <<>>]

----------------------------------------------------------------------------
(* RawRoll and GroupRoll *)

RawRoll_init(character, stat, skill) ==
    [character |-> character, stat |-> stat, skill |-> skill,
     raw_roll |-> 0, full_roll |-> 0, natural_roll_type |-> None]

get_stat_roll_value(r, sh) ==
    IF r.stat = None THEN 0
    ELSE get_weighted_value_for_stat(sh, r.skill = None)

get_skill_roll_value(r, sh) ==
    IF r.skill = None THEN 0
    ELSE get_weighted_value_for_skill(sh)

get_knack_roll_value(r, sh) ==
    IF ~sh.has_mods THEN 0
    ELSE get_weighted_value_for_knack(sh)

RawRoll_execute(r, sh, raw) ==
    [r EXCEPT !.raw_roll = raw,
              !.full_roll = raw + get_stat_roll_value(r, sh) + get_skill_roll_value(r, sh)
                            + get_knack_roll_value(r, sh),
              !.natural_roll_type = get_roll_type(raw)]

GroupRoll_init(character, stat, skill, helpers) ==
    [character |-> character, stat |-> stat, skill |-> skill, helpers |-> helpers,
     raw_rolls |-> <<>>, roll_results |-> <<>>, result_msgs |-> <<>>]

\* _generate_raw_rolls that forgets the caller
generate_raw_rolls_helpers_only(g, sh, draws) ==
    [g EXCEPT !.raw_rolls =
        @ \o [i \in 1..Len(g.helpers) |->
                 RawRoll_execute(RawRoll_init(g.helpers[i], g.stat, g.skill), sh, draws[i + 1])]]

\* draws[1] is the caller's die, draws[i + 1] the die of helpers[i]
generate_raw_rolls(g, sh, draws) ==
    [g EXCEPT !.raw_rolls =
        @ \o <<RawRoll_execute(RawRoll_init(g.character, g.stat, g.skill), sh, draws[1])>>
          \o [i \in 1..Len(g.helpers) |->
                 RawRoll_execute(RawRoll_init(g.helpers[i], g.stat, g.skill), sh, draws[i + 1])]]

generate_player_messages(g) ==
    [g EXCEPT !.roll_results =
        @ \o [i \in 1..Len(g.raw_rolls) |->
                 <<g.raw_rolls[i].character, "contributed!", g.raw_rolls[i].full_roll>>]]

stat_skill_string(g) ==
    IF g.skill # None THEN <<g.stat, "and", g.skill>> ELSE <<g.stat>>

\* sorted(helper_names): insertion of each name into an ascending list
RECURSIVE sorted_names(_)
sorted_names(names) ==
    IF names = <<>> THEN <<>>
    ELSE LET rest == sorted_names(Tail(names))
             x == Head(names)
             k == Cardinality({i \in 1..Len(rest) : rest[i] < x})
         IN  SubSeq(rest, 1, k) \o <<x>> \o SubSeq(rest, k + 1, Len(rest))

build_result_message(g) ==
    [g EXCEPT !.result_msgs =
        << <<"leads a group check of", g.character, stat_skill_string(g)>>,
           <<"Participating:", g.character, sorted_names(g.helpers)>> >>
        \o g.roll_results]

GroupRoll_execute(g, sh, draws) ==
    build_result_message(generate_player_messages(generate_raw_rolls(g, sh, draws)))

\* GroupCheckMaker.make_check
make_check(character, helpers, stat, skill, sh, draws) ==
    [phase |-> "made",
     roll |-> GroupRoll_execute(GroupRoll_init(character, stat, skill, helpers), sh, draws)]

----------------------------------------------------------------------------
(* Single-roll lifecycle *)

Idle == [phase |-> "idle"]

\* no notifier, no private roll, nothing delivered
NoAudience ==
    /\ world = Idle
    /\ notifier = Idle
    /\ generated = FALSE
    /\ notified = <<>>
    /\ names_read = Idle
    /\ command = Idle
    /\ priv = Idle
    /\ inbox = <<>>
    /\ room_out = <<>>

InitRoll ==
    /\ sheet \in Sheets
    /\ \E stat \in {None, "strength"}, skill \in {None, "athletics"}, rating \in Ratings :
           roll = SimpleRoll_init(1, stat, skill, rating)
    /\ executions = 0
    /\ rendered = <<>>
    /\ contest = Idle
    /\ opposing = Idle
    /\ group = Idle
    /\ NoAudience

\* roll.execute()
ExecuteRoll ==
    /\ executions < MaxExecutions
    /\ \E raw \in Draws, band \in Bands :
           roll' = SimpleRoll_execute(roll, sheet, raw, band)
    /\ executions' = executions + 1
    /\ rendered' = <<>>
    /\ UNCHANGED <<sheet, contest, opposing, group, audience>>

\* reading roll.roll_message
ReadRollMessage ==
    /\ Len(rendered) < MaxReads
    /\ rendered' = Append(rendered, roll_message(roll))
    /\ UNCHANGED <<sheet, roll, executions, contest, opposing, group, audience>>

Next == ExecuteRoll \/ ReadRollMessage

Spec == InitRoll /\ [][Next]_vars

----------------------------------------------------------------------------
(* Contested check: @check/contest *)

\* the sheets on which every lookup returns its largest weight
FullSheets ==
    {sh \in Sheets : /\ sh.has_mods
                     /\ sh.stat_alone = MaxWeight /\ sh.stat_paired = MaxWeight
                     /\ sh.skill = MaxWeight /\ sh.knack = MaxWeight}

InitContest ==
    /\ sheet \in FullSheets
    /\ roll = SimpleRoll_init(1, None, None, [value |-> 0])
    /\ executions = 0
    /\ rendered = <<>>
    /\ contest = Idle
    /\ opposing = Idle
    /\ group = Idle
    /\ NoAudience

\* ContestedCheckMaker.perform_contested_check for the characters 1..n
PerformContestedCheck ==
    /\ contest.phase = "idle"
    /\ \E n \in 0..MaxRolls :
         \E draws \in [1..n -> [raw : Draws, band : Bands]] :
           contest' = perform_contested_check([i \in 1..n |-> i], "check", "strength",
                                              "athletics", [value |-> MaxRating], sheet, draws)
    /\ UNCHANGED <<sheet, roll, executions, rendered, opposing, group, audience>>

\* the sorted rolls sorted once more
SortAgain ==
    /\ contest.phase = "ranked"
    /\ contest' = [contest EXCEPT !.phase = "resorted",
                                  !.resorted = sorted_reverse(contest.raw_rolls)]
    /\ UNCHANGED <<sheet, roll, executions, rendered, opposing, group, audience>>

NextContest == PerformContestedCheck \/ SortAgain

SpecContest == InitContest /\ [][NextContest]_vars

----------------------------------------------------------------------------
(* Opposing check: @check/vs *)

\* CmdStatCheck.do_opposing_checks builds the two rolls with a shared rating
InitOpposing ==
    /\ sheet \in FullSheets
    /\ roll = SimpleRoll_init(1, None, None, [value |-> 0])
    /\ executions = 0
    /\ rendered = <<>>
    /\ contest = Idle
    /\ \E target \in {1, 2}, skill \in {None, "athletics"}, vs_skill \in {None, "athletics"},
          rating \in Ratings :
         opposing = OpposingRolls_init(SimpleRoll_init(1, "strength", skill, rating),
                                       SimpleRoll_init(target, "dexterity", vs_skill, rating),
                                       1, target)
    /\ group = Idle
    /\ NoAudience

Announce ==
    /\ opposing.phase = "ready"
    /\ \E d1 \in [raw : Draws, band : Bands], d2 \in [raw : Draws, band : Bands] :
         opposing' = OpposingRolls_announce(opposing, sheet, d1, d2)
    /\ UNCHANGED <<sheet, roll, executions, rendered, contest, group, audience>>

NextOpposing == Announce

SpecOpposing == InitOpposing /\ [][NextOpposing]_vars

----------------------------------------------------------------------------
(* Group check *)

HelperPool == 1..(MaxHelpers + 1)

\* the helper lists: no character twice, at most MaxHelpers of them
HelperLists ==
    UNION {{h \in [1..n -> HelperPool] : \A i, j \in 1..n : i # j => h[i] # h[j]}
             : n \in 0..MaxHelpers}

InitGroup ==
    /\ sheet \in FullSheets
    /\ roll = SimpleRoll_init(1, None, None, [value |-> 0])
    /\ executions = 0
    /\ rendered = <<>>
    /\ contest = Idle
    /\ opposing = Idle
    /\ group = Idle
    /\ NoAudience

\* GroupCheckMaker.make_check
MakeCheck ==
    /\ group.phase = "idle"
    /\ \E helpers \in HelperLists, skill \in {None, "athletics"} :
         \E draws \in [1..(Len(helpers) + 1) -> Draws] :
           group' = make_check(1, helpers, "strength", skill, sheet, draws)
    /\ UNCHANGED <<sheet, roll, executions, rendered, contest, opposing, audience>>

NextGroup == MakeCheck

SpecGroup == InitGroup /\ [][NextGroup]_vars

----------------------------------------------------------------------------
(* The game world the announcements act in *)

NumChars == 2         \* characters a notifier can reach
MaxNames == 2         \* names handed to a ListNotifier
MaxNotify == 1        \* notify() calls on the one notifier

Chars == 1..NumChars

\* the character that runs the command
Caller == 1

\* an object in a room that is not a character
Furniture == 0

Things == Chars \cup {Furniture}

Roles == {"player", "gm", "staff", "gm_staff"}

\* known: the characters the caller's search finds by their name
Worlds ==
    {w \in [role : [Chars -> Roles], has_room : BOOLEAN, contents : SUBSET Things,
            known : SUBSET Chars] :
        ~w.has_room => w.contents = {}}

\* obj.is_character
is_character(x) == x \in Chars

\* char.is_gm()
is_gm(w, c) == w.role[c] \in {"gm", "gm_staff"}

\* char.is_staff()
is_staff(w, c) == w.role[c] \in {"staff", "gm_staff"}

\* char.check_staff_or_gm()
check_staff_or_gm(w, c) == is_staff(w, c) \/ is_gm(w, c)

\* char.check_permstring("Builders")
check_permstring(w, c) == is_staff(w, c)

\* randint(1, 100): the two extreme faces, for the rolls that are only announced
ExtremeDraws == {1, DieSides}

\* the options of a msg() call, as the set of those that are on: none, and {"roll": True}
NoOption == {}
RollOption == {"roll"}

\* the names a player can type: the name of each character, and one that nobody bears
Names == 1..(NumChars + 1)

\* caller.search(name, use_nicks=True): the character found, or nothing
search(w, name) == IF name \in w.known THEN <<name>> ELSE Unset

\* character names, as sequences of character codes: Bob, Al, Alice, Cy, Dee
CharNames ==
    << <<66, 111, 98>>, <<65, 108>>, <<65, 108, 105, 99, 101>>, <<67, 121>>,
       <<68, 101, 101>> >>

\* str(character), character.name, character.key
str(c) == CharNames[c]

\* str.lower()
lower(text) == [i \in 1..Len(text) |-> IF text[i] \in 65..90 THEN text[i] + 32 ELSE text[i]]

\* str.__lt__: the order of Python strings, by code point and then by length
RECURSIVE str_lt(_, _)
str_lt(a, b) ==
    IF b = <<>> THEN FALSE
    ELSE IF a = <<>> THEN TRUE
    ELSE IF Head(a) # Head(b) THEN Head(a) < Head(b)
    ELSE str_lt(Tail(a), Tail(b))

\* sorted(texts) of distinct texts
RECURSIVE sorted(_)
sorted(texts) ==
    IF texts = {} THEN <<>>
    ELSE LET least == CHOOSE t \in texts : \A u \in texts \ {t} : str_lt(t, u)
         IN <<least>> \o sorted(texts \ {least})

\* the orders in which iterating over a set can yield its members
Orderings(S) ==
    {o \in [1..Cardinality(S) -> S] : \A i, j \in 1..Cardinality(S) : i # j => o[i] # o[j]}

----------------------------------------------------------------------------
(* Notifier and its subclasses *)

ToFlags == {"to_player", "to_gm", "to_staff"}

\* Notifier.__init__ ; room and receiver_list are those of the subclasses
Notifier_init(kind, caller, room, receivers, to_flags) ==
    [kind |-> kind, caller |-> caller, to_flags |-> to_flags,
     room |-> room, receiver_list |-> receivers,
     player_set |-> {}, gm_set |-> {}, staff_set |-> {}, receiver_set |-> {}]

\* RoomNotifier.__init__
RoomNotifier_init(caller, room, to_flags) ==
    Notifier_init("RoomNotifier", caller, room, <<>>, to_flags)

\* ListNotifier.__init__
ListNotifier_init(caller, receivers, to_flags) ==
    Notifier_init("ListNotifier", caller, Unset, receivers, to_flags)

\* SelfListNotifier.__init__
SelfListNotifier_init(caller, receivers, to_flags) ==
    Notifier_init("SelfListNotifier", caller, Unset, receivers, to_flags)

\* the caller sourced when there is no room
RoomNotifier_source_caller_when_roomless(n, w) ==
    IF n.room # Unset
    THEN [n EXCEPT !.receiver_set = {char \in w.contents : is_character(char)}]
    ELSE [n EXCEPT !.receiver_set = {n.caller}]

\* RoomNotifier._source_characters
RoomNotifier_source_characters(n, w) ==
    IF n.room # Unset
    THEN [n EXCEPT !.receiver_set = {char \in w.contents : is_character(char)}]
    ELSE n

\* the loop of ListNotifier._source_characters from the i-th name on
RECURSIVE source_from(_, _, _)
source_from(n, w, i) ==
    IF i > Len(n.receiver_list) THEN n
    ELSE LET receiver == search(w, n.receiver_list[i])
         IN source_from(IF receiver # Unset
                        THEN [n EXCEPT !.receiver_set = @ \cup {receiver[1]}]
                        ELSE n,
                        w, i + 1)

\* the sourcing given up at the first name that finds nobody
ListNotifier_source_until_unknown(n, w) ==
    [n EXCEPT !.receiver_set =
        @ \cup {n.receiver_list[i] : i \in {k \in 1..Len(n.receiver_list) :
                     \A j \in 1..k : search(w, n.receiver_list[j]) # Unset}}]

\* ListNotifier._source_characters
ListNotifier_source_characters(n, w) == source_from(n, w, 1)

\* only the named characters sourced
SelfListNotifier_source_named_only(n, w) == ListNotifier_source_characters(n, w)

\* SelfListNotifier._source_characters
SelfListNotifier_source_characters(n, w) ==
    [ListNotifier_source_characters(n, w) EXCEPT !.receiver_set = @ \cup {n.caller}]

\* self._source_characters()
source_characters(n, w) ==
    CASE n.kind = "RoomNotifier" -> RoomNotifier_source_characters(n, w)
      [] n.kind = "ListNotifier" -> ListNotifier_source_characters(n, w)
      [] n.kind = "SelfListNotifier" -> SelfListNotifier_source_characters(n, w)

\* Notifier._filter_players
filter_players(n, w) ==
    [n EXCEPT !.player_set = {char \in n.receiver_set : ~check_staff_or_gm(w, char)}]

\* Notifier._filter_gms
filter_gms(n, w) ==
    [n EXCEPT !.gm_set = {char \in n.receiver_set : is_gm(w, char)}]

\* Notifier._filter_staff
filter_staff(n, w) ==
    [n EXCEPT !.staff_set = {char \in n.receiver_set : is_staff(w, char)}]

\* every filter run whatever the flags say
filter_receivers_unflagged(n, w) ==
    LET n3 == filter_staff(filter_gms(filter_players(n, w), w), w)
    IN [n3 EXCEPT !.receiver_set = n3.player_set \cup n3.gm_set \cup n3.staff_set]

\* Notifier._filter_receivers
filter_receivers(n, w) ==
    LET n1 == IF "to_player" \in n.to_flags THEN filter_players(n, w) ELSE n
        n2 == IF "to_gm" \in n1.to_flags THEN filter_gms(n1, w) ELSE n1
        n3 == IF "to_staff" \in n2.to_flags THEN filter_staff(n2, w) ELSE n2
    IN [n3 EXCEPT !.receiver_set = n3.player_set \cup n3.gm_set \cup n3.staff_set]

\* Notifier.generate
Notifier_generate(n, w) == filter_receivers(source_characters(n, w), w)

\* the caller notified along with the receivers
Notifier_notify_caller_too(n, box, msg, options) ==
    [c \in DOMAIN box |->
        IF c \in n.receiver_set \cup {n.caller} THEN Append(box[c], <<msg, options>>)
        ELSE box[c]]

\* Notifier.notify: what every inbox holds afterwards
Notifier_notify(n, box, msg, options) ==
    [c \in DOMAIN box |->
        IF c \in n.receiver_set THEN Append(box[c], <<msg, options>>) ELSE box[c]]

\* [str(player) for player in a_set], the set iterated in the order given
names_in(order) == [i \in 1..Len(order) |-> str(order[i])]

\* the set behind each name-list property
set_of(n, property) ==
    CASE property = "player_names" -> n.player_set
      [] property = "gm_names" -> n.gm_set
      [] property = "staff_names" -> n.staff_set
      [] property = "receiver_names" -> n.receiver_set

----------------------------------------------------------------------------
(* A notifier is built, generated, read and used *)

Msgs == {"hello", "bye"}
Options == {NoOption, RollOption}

\* no roll, no contest, no group
NoEngine ==
    /\ sheet \in FullSheets
    /\ roll = SimpleRoll_init(1, None, None, [value |-> 0])
    /\ executions = 0
    /\ rendered = <<>>
    /\ contest = Idle
    /\ opposing = Idle
    /\ group = Idle

ReceiverLists == UNION {[1..k -> Names] : k \in 0..MaxNames}

InitNotifier ==
    /\ NoEngine
    /\ world \in Worlds
    /\ world.known = Chars
    /\ \E to_flags \in SUBSET ToFlags :
         \/ notifier = RoomNotifier_init(Caller, IF world.has_room THEN <<"room">> ELSE Unset,
                                         to_flags)
         \/ /\ ~world.has_room
            /\ \E receivers \in ReceiverLists :
                 \/ notifier = ListNotifier_init(Caller, receivers, to_flags)
                 \/ notifier = SelfListNotifier_init(Caller, receivers, to_flags)
    /\ generated = FALSE
    /\ notified = <<>>
    /\ names_read = Idle
    /\ command = Idle
    /\ priv = Idle
    /\ inbox = [c \in Chars |-> <<>>]
    /\ room_out = <<>>

\* notifier.generate()
Generate ==
    /\ notifier' = Notifier_generate(notifier, world)
    /\ generated' = TRUE
    /\ UNCHANGED <<engine, world, notified, names_read, command, priv, inbox, room_out>>

\* notifier.notify(msg, options)
Notify ==
    /\ Len(notified) < MaxNotify
    /\ \E msg \in Msgs, options \in Options :
         /\ inbox' = Notifier_notify(notifier, inbox, msg, options)
         /\ notified' = Append(notified, <<msg, options>>)
    /\ UNCHANGED <<engine, world, notifier, generated, names_read, command, priv, room_out>>

\* reading notifier.player_names, gm_names, staff_names or receiver_names
ReadNames ==
    /\ \E property \in {"player_names", "gm_names", "staff_names", "receiver_names"} :
         \E order \in Orderings(set_of(notifier, property)) :
           names_read' = [property |-> property, names |-> names_in(order)]
    /\ UNCHANGED <<engine, world, notifier, generated, notified, command, priv, inbox, room_out>>

\* a notifier generated and used to deliver
NextNotifier == Generate \/ Notify

SpecNotifier == InitNotifier /\ [][NextNotifier]_vars

\* a notifier generated and its name lists read
NextNames == Generate \/ ReadNames

SpecNames == InitNotifier /\ [][NextNames]_vars

----------------------------------------------------------------------------
(* A notifier generated again after the world or its flags have changed *)

\* characters and objects enter or leave the room
ChangeContents ==
    /\ world.has_room
    /\ \E contents \in SUBSET Things :
         /\ contents # world.contents
         /\ world' = [world EXCEPT !.contents = contents]
    /\ generated' = FALSE
    /\ UNCHANGED <<engine, notifier, notified, names_read, command, priv, inbox, room_out>>

\* names start or stop resolving for the caller
ChangeResolution ==
    /\ \E known \in SUBSET Chars :
         /\ known # world.known
         /\ world' = [world EXCEPT !.known = known]
    /\ generated' = FALSE
    /\ UNCHANGED <<engine, notifier, notified, names_read, command, priv, inbox, room_out>>

\* notifier.to_flags is assigned other flags
ChangeFlags ==
    /\ \E to_flags \in SUBSET ToFlags :
         /\ to_flags # notifier.to_flags
         /\ notifier' = [notifier EXCEPT !.to_flags = to_flags]
    /\ generated' = FALSE
    /\ UNCHANGED <<engine, world, notified, names_read, command, priv, inbox, room_out>>

NextRegenerate == Generate \/ ChangeContents \/ ChangeResolution \/ ChangeFlags

SpecRegenerate == InitNotifier /\ [][NextRegenerate]_vars

----------------------------------------------------------------------------
(* Private roll: @check ...=<player1>,<player2> *)

NumCast == 3          \* characters in the game of a private or group check
MaxReceivers == 3     \* receivers handed to a private roll

Cast == 1..NumCast

\* character.msg(text, options=...): what every inbox holds afterwards
msg(box, character, text, options) ==
    [box EXCEPT ![character] = Append(@, <<text, options>>)]

\* msg() to each member of a collection, none of them twice
msg_each(box, characters, text, options) ==
    [c \in DOMAIN box |->
        IF c \in characters THEN Append(box[c], <<text, options>>) ELSE box[c]]

\* "me" and "self"
Me == <<109, 101>>
Self == <<115, 101, 108, 102>>

\* "|c%s|n" % name
highlight(name) == <<124, 99>> \o name \o <<124, 110>>

SelfOnly == [text |-> "(Shared with: self-only)", names |-> <<>>]

\* "(Shared with: %s)" % ", ".join(names)
SharedWith(names) == [text |-> "(Shared with: %s)", names |-> names]

\* SimpleRoll.announce_to_players, the name lists: receivers is set(self.receivers)
all_receiver_names(receivers, w) ==
    LET staff_receiver_names ==
            {highlight(str(ob)) : ob \in {o \in receivers : check_permstring(w, o)}}
        pc_receiver_names == {str(ob) : ob \in {o \in receivers : ~check_permstring(w, o)}}
    IN sorted(pc_receiver_names) \o sorted(staff_receiver_names)

\* the suffix that lists the names whoever the receivers are
receiver_suffix_always_listed(r, receivers, w) == SharedWith(all_receiver_names(receivers, w))

\* SimpleRoll.announce_to_players, the receivers who are not the roller
receiver_list(r, receivers) ==
    LET self_list == {Me, Self, lower(str(r.character)), lower(str(r.character))}
    IN {ob \in receivers : lower(str(ob)) \notin self_list}

\* SimpleRoll.announce_to_players, the suffix
receiver_suffix(r, receivers, w) ==
    IF Cardinality(receiver_list(r, receivers)) = 0
    THEN SelfOnly
    ELSE SharedWith(all_receiver_names(receivers, w))

\* SimpleRoll.announce_to_players, the message
private_msg(r, receivers, w) ==
    <<"|w[Private Roll]|n", roll_message(r), receiver_suffix(r, receivers, w)>>

\* the staff in the room all told, whoever they are
announce_to_players_no_staff_skipped(r, receivers, w, box) ==
    LET text == private_msg(r, receivers, w)
        told == msg(box, r.character, text, RollOption)
        staff_list == {gm \in w.contents : check_permstring(w, gm)}
    IN IF ~w.has_room THEN told
       ELSE msg_each(msg_each(told, staff_list, text, RollOption),
                     receiver_list(r, receivers), text, RollOption)

\* SimpleRoll.announce_to_players, the deliveries: what every inbox holds afterwards
announce_to_players(r, receivers, w, box) ==
    LET text == private_msg(r, receivers, w)
        told == msg(box, r.character, text, RollOption)
        staff_list == {gm \in w.contents : check_permstring(w, gm)}
        others == {staff \in staff_list :
                     ~(staff = r.character \/ staff \in receiver_list(r, receivers))}
    IN IF ~w.has_room THEN told
       ELSE msg_each(msg_each(told, others, text, RollOption),
                     receiver_list(r, receivers), text, RollOption)

\* PrivateCheckMaker.make_check_and_announce
make_check_and_announce(character, stat, skill, rating, receivers, sh, raw, band, w, box) ==
    LET r == SimpleRoll_execute(SimpleRoll_init(character, stat, skill, rating), sh, raw, band)
        named == {receivers[i] : i \in 1..Len(receivers)}
    IN [priv |-> [phase |-> "announced", roll |-> r, receivers |-> receivers,
                  receiver_suffix |-> receiver_suffix(r, named, w),
                  private_msg |-> private_msg(r, named, w)],
        inbox |-> announce_to_players(r, named, w, box)]

\* the roller, staff or not, in a room with any of the others or nowhere
PrivateWorlds ==
    {w \in [role : [Cast -> {"player", "staff"}], has_room : BOOLEAN, contents : SUBSET Cast] :
        IF w.has_room THEN Caller \in w.contents ELSE w.contents = {}}

InitPrivate ==
    /\ NoEngine
    /\ world \in PrivateWorlds
    /\ notifier = Idle
    /\ generated = FALSE
    /\ notified = <<>>
    /\ names_read = Idle
    /\ command = Idle
    /\ priv = Idle
    /\ inbox = [c \in Cast |-> <<>>]
    /\ room_out = <<>>

\* PrivateCheckMaker.perform_check_for_character
PerformPrivateCheck ==
    /\ priv.phase = "idle"
    /\ \E k \in 0..MaxReceivers :
         \E receivers \in [1..k -> Cast], raw \in ExtremeDraws, band \in Bands :
           LET done == make_check_and_announce(Caller, "strength", "athletics",
                                               [value |-> MaxRating], receivers, sheet,
                                               raw, band, world, inbox)
           IN /\ priv' = done.priv
              /\ inbox' = done.inbox
    /\ UNCHANGED <<engine, world, notifier, generated, notified, names_read, command, room_out>>

NextPrivate == PerformPrivateCheck

SpecPrivate == InitPrivate /\ [][NextPrivate]_vars

----------------------------------------------------------------------------
(* Group check announced *)

\* self.character.msg_location_or_contents(text, options=...): the broadcasts made
msg_location_or_contents(out, text, options) == Append(out, <<text, options>>)

\* the loop "for msg in msg_list: character.msg(msg, options={"roll": True})"
RECURSIVE msg_all(_, _, _, _)
msg_all(box, character, msg_list, i) ==
    IF i > Len(msg_list) THEN box
    ELSE msg_all(msg(box, character, msg_list[i], RollOption), character, msg_list, i + 1)

\* GroupCheckMaker.announce_to_room
RECURSIVE GroupCheckMaker_announce_to_room(_, _, _)
GroupCheckMaker_announce_to_room(out, msg_list, i) ==
    IF i > Len(msg_list) THEN out
    ELSE GroupCheckMaker_announce_to_room(
             msg_location_or_contents(out, msg_list[i], RollOption), msg_list, i + 1)

\* GroupCheckMaker.announce_to_players from the i-th player on
RECURSIVE GroupCheckMaker_announce_to_players(_, _, _, _, _)
GroupCheckMaker_announce_to_players(box, msg_list, player_list, w, i) ==
    IF i > Len(player_list) THEN box
    ELSE GroupCheckMaker_announce_to_players(
             IF check_staff_or_gm(w, player_list[i]) THEN box
             ELSE msg_all(box, player_list[i], msg_list, 1),
             msg_list, player_list, w, i + 1)

\* GroupCheckMaker.announce_to_player_gms: gm_list is empty
GroupCheckMaker_announce_to_player_gms(box, character, msg_list) ==
    msg(box, character, <<"announce_to_player_gms() called">>, NoOption)

\* GroupCheckMaker.announce_to_staff: staff_list is empty
GroupCheckMaker_announce_to_staff(box, character, msg_list) ==
    msg(box, character, <<"announce_to_staff() called">>, NoOption)

\* GroupCheckMaker.announce
GroupCheckMaker_announce(character, helpers, private_roll, msgs, w, box, out) ==
    IF ~private_roll
    THEN [inbox |-> box, room_out |-> GroupCheckMaker_announce_to_room(out, msgs, 1)]
    ELSE [inbox |-> GroupCheckMaker_announce_to_staff(
                      GroupCheckMaker_announce_to_player_gms(
                        GroupCheckMaker_announce_to_players(box, msgs, helpers, w, 1),
                        character, msgs),
                      character, msgs),
          room_out |-> out]

\* GroupCheckMaker.perform_check_for_characters
perform_check_for_characters(character, helpers, private_roll, stat, skill, sh, draws, w, box, out) ==
    LET made == make_check(character, helpers, stat, skill, sh, draws)
        told == GroupCheckMaker_announce(character, helpers, private_roll,
                                         made.roll.result_msgs, w, box, out)
    IN [group |-> [phase |-> "announced", roll |-> made.roll, helpers |-> helpers,
                   private_roll |-> private_roll],
        inbox |-> told.inbox,
        room_out |-> told.room_out]

\* the leader in a room with any of the others, or nowhere; players, GMs and staff
GroupWorlds ==
    {w \in [role : [Cast -> {"player", "gm", "staff"}], has_room : BOOLEAN,
            contents : SUBSET Cast] :
        IF w.has_room THEN Caller \in w.contents ELSE w.contents = {}}

InitGroupAnnounce ==
    /\ NoEngine
    /\ world \in GroupWorlds
    /\ notifier = Idle
    /\ generated = FALSE
    /\ notified = <<>>
    /\ names_read = Idle
    /\ command = Idle
    /\ priv = Idle
    /\ inbox = [c \in Cast |-> <<>>]
    /\ room_out = <<>>

\* GroupCheckMaker.perform_check_for_characters
PerformGroupCheck ==
    /\ group.phase = "idle"
    /\ \E helpers \in {h \in HelperLists : \A i \in 1..Len(h) : h[i] \in Cast},
          private_roll \in BOOLEAN :
         \E draws \in [1..(Len(helpers) + 1) -> ExtremeDraws] :
           LET done == perform_check_for_characters(Caller, helpers, private_roll,
                                                    "strength", "athletics", sheet, draws,
                                                    world, inbox, room_out)
           IN /\ group' = done.group
              /\ inbox' = done.inbox
              /\ room_out' = done.room_out
    /\ UNCHANGED <<sheet, roll, executions, rendered, contest, opposing,
                   world, notifier, generated, notified, names_read, command, priv>>

NextGroupAnnounce == PerformGroupCheck

SpecGroupAnnounce == InitGroupAnnounce /\ [][NextGroupAnnounce]_vars

----------------------------------------------------------------------------
(* The command @check/contest *)

\* the texts of the errors raised as self.error_class
NotGMing == <<"You are not GMing an event in this room.">>
MustNameCharacters == <<"You must specify the names of characters for the contest.">>
CheckStringError == <<"CheckStringError">>

\* a command that ended before anything was rolled
ended(outcome, error) == [outcome |-> outcome, error |-> error, contest |-> Idle]

\* the loop over self.lhslist that goes on to the next name when one is not found
RECURSIVE search_each_skipping_unknown(_, _, _, _)
search_each_skipping_unknown(w, lhslist, characters, i) ==
    IF i > Len(lhslist) THEN [found |-> TRUE, characters |-> characters]
    ELSE LET character == search(w, lhslist[i])
         IN search_each_skipping_unknown(
                w, lhslist,
                IF character = Unset THEN characters ELSE Append(characters, character[1]),
                i + 1)

\* the loop over self.lhslist: it returns at the first name that is not found
RECURSIVE search_each(_, _, _, _)
search_each(w, lhslist, characters, i) ==
    IF i > Len(lhslist) THEN [found |-> TRUE, characters |-> characters]
    ELSE LET character == search(w, lhslist[i])
         IN IF character = Unset THEN [found |-> FALSE, characters |-> characters]
            ELSE search_each(w, lhslist, Append(characters, character[1]), i + 1)

\* the characters of the room other than the caller, in the order of location.contents
here(cmd, w, order) ==
    SelectSeq(order, LAMBDA ob : is_character(ob) /\ ob # cmd.caller)

\* CheckString(check_string).parse(), then ContestedCheckMaker.perform_contested_check
parse_and_perform(cmd, characters, sh, draws) ==
    IF ~cmd.parses THEN ended("raised", CheckStringError)
    ELSE [outcome |-> "performed", error |-> <<>>,
          contest |-> perform_contested_check(characters, "check", "strength", "athletics",
                                              [value |-> MaxRating], sh, draws)]

\* do_contested_check from "Get the characters for this particular check/contest" on
contest_characters(cmd, w, sh, order, draws) ==
    IF cmd.here
    THEN IF ~w.has_room THEN ended("AttributeError", <<>>)
         ELSE parse_and_perform(cmd, here(cmd, w, order), sh, draws)
    ELSE IF ~cmd.rhs THEN ended("raised", MustNameCharacters)
    ELSE LET searched == search_each(w, cmd.lhslist, <<>>, 1)
         IN IF ~searched.found THEN ended("returned", <<>>)
            ELSE parse_and_perform(cmd, searched.characters, sh, draws)

\* do_contested_check without its first test
do_contested_check_for_anyone(cmd, w, sh, order, draws) ==
    contest_characters(cmd, w, sh, order, draws)

\* CmdStatCheck.do_contested_check
do_contested_check(cmd, w, sh, order, draws) ==
    IF ~check_staff_or_gm(w, cmd.caller) THEN ended("raised", NotGMing)
    ELSE contest_characters(cmd, w, sh, order, draws)

\* CmdStatCheck.func with the switch "contest": an error_class raised is told to the caller
func(cmd, w, sh, order, draws, ct, box, out) ==
    LET did == do_contested_check(cmd, w, sh, order, draws)
    IN [command |-> [phase |-> "done", caller |-> cmd.caller, here |-> cmd.here,
                     lhslist |-> cmd.lhslist, rhs |-> cmd.rhs, parses |-> cmd.parses,
                     outcome |-> did.outcome],
        contest |-> IF did.outcome = "performed" THEN did.contest ELSE ct,
        inbox |-> IF did.outcome = "raised" THEN msg(box, cmd.caller, did.error, NoOption)
                  ELSE box,
        room_out |-> IF did.outcome = "performed"
                     THEN msg_location_or_contents(out, did.contest.room[1], RollOption)
                     ELSE out]

\* the caller a player, a GM or staff among players; any room, any names resolving
CommandWorlds == {w \in Worlds : \A c \in Chars \ {Caller} : w.role[c] = "player"}

\* the commands a caller can type: /here or a list of names, with or without "=",
\* with a check string that parses or not
Commands ==
    [caller : {Caller}, here : BOOLEAN, lhslist : ReceiverLists, rhs : BOOLEAN,
     parses : BOOLEAN]

\* how many characters a command will roll for, so that as many draws are made
contestants(cmd, w) ==
    IF cmd.here THEN Cardinality((w.contents \cap Chars) \ {cmd.caller})
    ELSE Len(search_each(w, cmd.lhslist, <<>>, 1).characters)

InitCommand ==
    /\ NoEngine
    /\ world \in CommandWorlds
    /\ notifier = Idle
    /\ generated = FALSE
    /\ notified = <<>>
    /\ names_read = Idle
    /\ command = Idle
    /\ priv = Idle
    /\ inbox = [c \in Chars |-> <<>>]
    /\ room_out = <<>>

\* the caller types @check/contest
ContestCommand ==
    /\ command.phase = "idle"
    /\ \E cmd \in Commands, order \in Orderings(world.contents) :
         \E draws \in [1..contestants(cmd, world) -> [raw : ExtremeDraws, band : {1}]] :
           LET done == func(cmd, world, sheet, order, draws, contest, inbox, room_out)
           IN /\ command' = done.command
              /\ contest' = done.contest
              /\ inbox' = done.inbox
              /\ room_out' = done.room_out
    /\ UNCHANGED <<sheet, roll, executions, rendered, opposing, group,
                   world, notifier, generated, notified, names_read, priv>>

NextCommand == ContestCommand

SpecCommand == InitCommand /\ [][NextCommand]_vars

----------------------------------------------------------------------------
(* What the claims speak of *)

\* the contributions a plain roll is owed, read off the lookups
WeightedStat(r) ==
    IF r.stat = None THEN 0
    ELSE IF r.skill = None THEN sheet.stat_alone ELSE sheet.stat_paired
WeightedSkill(r) == IF r.skill = None THEN 0 ELSE sheet.skill
WeightedKnack(r) == IF sheet.has_mods THEN sheet.knack ELSE 0

NetOf(r) == r.result_value[1]
BandOf(r) == r.roll_result_object[1]

NetIsSum(r) ==
    NetOf(r) = r.raw_roll[1] + WeightedStat(r) + WeightedSkill(r) + WeightedKnack(r)
               - r.rating.value

DerivedFields(r) ==
    <<r.raw_roll, r.result_value, r.roll_result_object, r.natural_roll_type,
      r.result_message>>

\* every derived field of r was computed from r's own draw
Coherent(r) ==
    /\ r.raw_roll[1] \in 1..DieSides
    /\ NetIsSum(r)
    /\ r.result_message =
         <<"result", BandOf(r), r.character, r.result_value, r.natural_roll_type>>

WithinThreshold(a, b) ==
    BandOf(a) = BandOf(b) /\ Abs(NetOf(a) - NetOf(b)) <= TIE_THRESHOLD

\* a ranks strictly above b
Outranks(a, b) ==
    IF BandOf(a) # BandOf(b) THEN BandOf(b).value < BandOf(a).value
    ELSE NetOf(b) + TIE_THRESHOLD < NetOf(a)

----------------------------------------------------------------------------
(* C1 *)

\* C1: once SimpleRoll.execute() has run, result_value is raw_roll plus the weighted
\* stat, skill and knack contributions minus rating.value, and raw_roll is in 1..100.
C1_NetIsRawPlusWeightsMinusRating ==
    Resolved(roll) => (roll.raw_roll[1] \in 1..DieSides /\ NetIsSum(roll))

C1_Witness ==
    /\ Resolved(roll)
    /\ roll.stat # None /\ roll.skill # None /\ sheet.has_mods
    /\ sheet.stat_paired > 0 /\ sheet.skill > 0 /\ sheet.knack > 0
    /\ roll.rating.value > 0
    /\ roll.raw_roll = <<DieSides>>

----------------------------------------------------------------------------
(* C2 *)

----------------------------------------------------------------------------
(* C9 *)

\* C9: every read of roll_message between two execute() calls returns the same text,
\* and a read changes neither raw_roll, result_value nor the band.
C9_RenderingIsIdempotent ==
    /\ [](\A i, j \in 1..Len(rendered) : rendered[i] = rendered[j])
    /\ [][(rendered' # rendered /\ executions' = executions) => roll' = roll]_vars

C9_Witness ==
    /\ Resolved(roll)
    /\ Len(rendered) >= 2
    /\ rendered[1] = rendered[2]
    /\ rendered[1][Len(rendered[1])] = roll.result_message

----------------------------------------------------------------------------
(* C3, C4, C8: the pair of rolls of an opposing check *)

Announced == opposing.phase = "announced"

\* C3 as stated: both SimpleRoll equality and check_rolls_tied report a tie exactly
\* when the bands are the same and the net values differ by at most the threshold.
C3_TiedIffSameBandWithinThreshold ==
    Announced =>
        /\ SimpleRoll_eq(opposing.roll1, opposing.roll2)
             <=> WithinThreshold(opposing.roll1, opposing.roll2)
        /\ check_rolls_tied(opposing.roll1, opposing.roll2, TIE_THRESHOLD)
             <=> WithinThreshold(opposing.roll1, opposing.roll2)

\* C4: a < b is decided by the band values when the bands differ, whatever the
\* net values, and by a.result_value + tie_threshold < b.result_value when they agree.
C4_LessThanByBandThenNet ==
    Announced =>
        \A p \in {<<opposing.roll1, opposing.roll2>>, <<opposing.roll2, opposing.roll1>>} :
            SimpleRoll_lt(p[1], p[2]) <=>
                IF BandOf(p[1]) # BandOf(p[2])
                THEN BandOf(p[1]).value < BandOf(p[2]).value
                ELSE NetOf(p[1]) + p[1].tie_threshold < NetOf(p[2])

C4_Witness ==
    /\ Announced
    /\ BandOf(opposing.roll1).value < BandOf(opposing.roll2).value
    /\ NetOf(opposing.roll1) > NetOf(opposing.roll2) + TIE_THRESHOLD
    /\ SimpleRoll_lt(opposing.roll1, opposing.roll2)

Verdict == opposing.room[1][5]

\* C8: announce() executes both rolls and sends one message; its verdict is "tied"
\* exactly when roll1 == roll2, otherwise the winner is the actor of the roll that
\* outranks the other, which is the higher band's roll when the bands differ.
C8_OpposedVerdict ==
    Announced =>
        LET a == opposing.roll1
            b == opposing.roll2
        IN  /\ Len(opposing.room) = 1
            /\ Resolved(a) /\ Resolved(b)
            /\ (Verdict = <<"tied">>) <=> WithinThreshold(a, b)
            /\ ~WithinThreshold(a, b) =>
                 \/ Outranks(a, b) /\ Verdict = <<"winner", a.character>>
                 \/ Outranks(b, a) /\ Verdict = <<"winner", b.character>>
            /\ BandOf(a).value > BandOf(b).value => Verdict = <<"winner", a.character>>
            /\ BandOf(b).value > BandOf(a).value => Verdict = <<"winner", b.character>>

C8_Witness ==
    /\ Announced
    /\ opposing.roll1.character # opposing.roll2.character
    /\ BandOf(opposing.roll2).value > BandOf(opposing.roll1).value
    /\ NetOf(opposing.roll2) + TIE_THRESHOLD < NetOf(opposing.roll1)
    /\ Verdict = <<"winner", opposing.roll2.character>>

----------------------------------------------------------------------------
(* C5, C6, C7: the ranking of a contested check *)

Ranked == contest.phase \in {"ranked", "resorted"}

\* C5: the rolls sorted as RollResults sorts them, sorted again, keep their order.
C5_SortingTwiceKeepsTheOrder ==
    contest.phase = "resorted" => contest.resorted = contest.raw_rolls

C5_Witness ==
    /\ contest.phase = "resorted"
    /\ Len(contest.rolls) = 3
    /\ contest.raw_rolls # contest.rolls
    /\ contest.resorted = contest.raw_rolls
    /\ \E i, j \in 1..3 : i # j /\ SimpleRoll_eq(contest.rolls[i], contest.rolls[j])

RECURSIVE Flatten(_)
Flatten(groups) ==
    IF groups = <<>> THEN <<>> ELSE Head(groups) \o Flatten(Tail(groups))

\* C6: a roll joins the last group iff it compares equal to that group's first member,
\* otherwise it opens a group; no group is empty, the groups in order make up the
\* sorted rolls, and every roll made is in exactly one group.
C6_GroupsAnchoredToFirstMember ==
    Ranked =>
        LET res == contest.results
        IN  /\ \A g \in 1..Len(res) : res[g] # <<>>
            /\ Flatten(res) = contest.raw_rolls
            /\ \A g \in 1..Len(res) : \A k \in 2..Len(res[g]) :
                   SimpleRoll_eq(res[g][1], res[g][k])
            /\ \A g \in 2..Len(res) : ~SimpleRoll_eq(res[g - 1][1], res[g][1])
            /\ \A i \in 1..Len(contest.rolls) :
                   Cardinality({gk \in {<<g, k>> : g \in 1..Len(res), k \in 1..MaxRolls + 1} :
                                   /\ gk[2] <= Len(res[gk[1]])
                                   /\ res[gk[1]][gk[2]] = contest.rolls[i]}) = 1

\* a chain: the third roll ties the second, not the first of its group
C6_Witness ==
    /\ Ranked
    /\ Len(contest.results) = 2
    /\ Len(contest.results[1]) = 2
    /\ SimpleRoll_eq(contest.results[1][2], contest.results[2][1])
    /\ ~SimpleRoll_eq(contest.results[1][1], contest.results[2][1])

\* a is at least as high as b: by band, then by net value
AtLeast(a, b) ==
    \/ BandOf(a).value > BandOf(b).value
    \/ BandOf(a) = BandOf(b) /\ NetOf(a) >= NetOf(b)

\* C7 as stated: of three rolls, when the two highest share a band within the
\* threshold and the lowest does not compare equal to the highest, the ranking is
\* the tie of the two highest and then the lowest alone, in every input order.
C7_TwoHighestTieThenLowest ==
    (Ranked /\ Len(contest.rolls) = 3) =>
        \A h, m, l \in 1..3 :
            LET hi == contest.rolls[h]
                mid == contest.rolls[m]
                lo == contest.rolls[l]
            IN  (/\ h # m /\ m # l /\ h # l
                 /\ AtLeast(hi, mid) /\ AtLeast(mid, lo)
                 /\ WithinThreshold(hi, mid)
                 /\ ~SimpleRoll_eq(lo, hi))
                => /\ Len(contest.results) = 2
                   /\ Len(contest.results[1]) = 2
                   /\ {contest.results[1][1], contest.results[1][2]} = {hi, mid}
                   /\ contest.results[2] = <<lo>>

----------------------------------------------------------------------------
(* C10: the group roll *)

Made == group.phase = "made"

----------------------------------------------------------------------------
(* Recipient sets *)

\* the characters a notifier's source yields in the world as it stands
PoolOf(n, w) ==
    CASE n.kind = "RoomNotifier" ->
           IF w.has_room THEN w.contents \cap Chars ELSE {}
      [] n.kind = "ListNotifier" ->
           {n.receiver_list[i] : i \in 1..Len(n.receiver_list)} \cap w.known
      [] n.kind = "SelfListNotifier" ->
           ({n.receiver_list[i] : i \in 1..Len(n.receiver_list)} \cap w.known) \cup {n.caller}

\* the character matches a flag that is set
MatchesActiveFlag(n, w, c) ==
    \/ "to_player" \in n.to_flags /\ w.role[c] = "player"
    \/ "to_gm" \in n.to_flags /\ w.role[c] \in {"gm", "gm_staff"}
    \/ "to_staff" \in n.to_flags /\ w.role[c] \in {"staff", "gm_staff"}

\* C11: after generate(), a character is a receiver exactly when it is in the
\* sourced pool and matches a flag that is set; with no flag set there is no receiver.
C11_ReceiversArePoolMembersMatchingAFlag ==
    generated =>
      /\ notifier.receiver_set =
            {c \in PoolOf(notifier, world) : MatchesActiveFlag(notifier, world, c)}
      /\ notifier.receiver_set \subseteq PoolOf(notifier, world)
      /\ notifier.to_flags = {} => notifier.receiver_set = {}

\* a pool with a player and a GM, filtered by the GM flag alone
C11_Witness ==
    /\ generated
    /\ notifier.to_flags = {"to_gm"}
    /\ \E p, g \in PoolOf(notifier, world) :
         /\ world.role[p] = "player" /\ world.role[g] = "gm"
         /\ notifier.receiver_set = {g}

\* C12: after generate(), player_set, gm_set and staff_set are pairwise disjoint,
\* whatever the pool, the flags and the roles of the pool members.
C12_SetsPairwiseDisjoint ==
    generated =>
      /\ notifier.player_set \cap notifier.gm_set = {}
      /\ notifier.player_set \cap notifier.staff_set = {}
      /\ notifier.gm_set \cap notifier.staff_set = {}

\* the characters the names of the list resolve to
ResolvedNames(n, w) ==
    {search(w, n.receiver_list[i])[1] :
        i \in {k \in 1..Len(n.receiver_list) : search(w, n.receiver_list[k]) # Unset}}

\* one name of the list resolves and one does not
OneFoundOneNot(n, w) ==
    /\ Len(n.receiver_list) = 2
    /\ \E i, j \in 1..2 : /\ search(w, n.receiver_list[i]) # Unset
                          /\ search(w, n.receiver_list[j]) = Unset

\* C13: after generate() of a ListNotifier the recipients are exactly the characters
\* the resolvable names resolve to; one resolvable and one unresolvable name give
\* exactly one recipient.
C13_RecipientsAreTheResolved ==
    (generated /\ notifier.kind = "ListNotifier") =>
      /\ notifier.receiver_set = ResolvedNames(notifier, world)
      /\ OneFoundOneNot(notifier, world) => Cardinality(notifier.receiver_set) = 1

\* C13 (amended): unresolvable names are skipped and the recipients are the resolved
\* characters that match a set flag: all of them when every flag is set, and, of one
\* resolvable and one unresolvable name, one recipient if that character matches a
\* set flag and none otherwise.
C13_RecipientsAreTheResolvedMatchingAFlag ==
    (generated /\ notifier.kind = "ListNotifier") =>
      /\ notifier.receiver_set =
            {c \in ResolvedNames(notifier, world) : MatchesActiveFlag(notifier, world, c)}
      /\ notifier.to_flags = ToFlags => notifier.receiver_set = ResolvedNames(notifier, world)
      /\ OneFoundOneNot(notifier, world) =>
            Cardinality(notifier.receiver_set) =
              IF \E c \in ResolvedNames(notifier, world) : MatchesActiveFlag(notifier, world, c)
              THEN 1 ELSE 0

\* an unresolvable name ahead of a resolvable one, whose character is the one recipient
C13_Witness ==
    /\ generated
    /\ notifier.kind = "ListNotifier"
    /\ Len(notifier.receiver_list) = 2
    /\ search(world, notifier.receiver_list[1]) = Unset
    /\ search(world, notifier.receiver_list[2]) # Unset
    /\ notifier.receiver_set = {notifier.receiver_list[2]}

\* C14: a SelfListNotifier sources its caller, named or not, so that after
\* generate() the caller is a receiver exactly when the caller matches a set flag.
C14_CallerReceivesIffMatchingAFlag ==
    (generated /\ notifier.kind = "SelfListNotifier") =>
      (notifier.caller \in notifier.receiver_set
         <=> MatchesActiveFlag(notifier, world, notifier.caller))

\* the caller is not named in the list and is a receiver all the same
C14_Witness ==
    /\ generated
    /\ notifier.kind = "SelfListNotifier"
    /\ notifier.caller \notin ResolvedNames(notifier, world)
    /\ ResolvedNames(notifier, world) # {}
    /\ notifier.caller \in notifier.receiver_set

\* C15: generate() of a RoomNotifier whose room is absent or empty leaves the
\* recipient union empty, whatever the flags.
C15_NoRoomNoRecipients ==
    (generated /\ notifier.kind = "RoomNotifier"
       /\ (notifier.room = Unset \/ world.contents = {})) =>
      notifier.receiver_set = {}

\* generate() has run with every flag set and no room
C15_Witness ==
    /\ generated
    /\ notifier.kind = "RoomNotifier"
    /\ notifier.room = Unset
    /\ notifier.to_flags = ToFlags
    /\ notifier.receiver_set = {}

\* C16: notify(msg, options) appends that very (msg, options) once to the inbox of
\* every member of the recipient union, touches no other inbox and no recipient set.
C16_NotifyDeliversOnceToEachReceiver ==
    [][notified' # notified =>
         /\ \A c \in Chars :
              inbox'[c] = IF c \in notifier.receiver_set
                          THEN Append(inbox[c], notified'[Len(notified')])
                          ELSE inbox[c]
         /\ notifier' = notifier]_vars

\* one notify() after generate(): the one receiver holds the message, the other
\* character nothing
C16_Witness ==
    /\ generated
    /\ Len(notified) = 1
    /\ \E c, d \in Chars :
         /\ notifier.receiver_set = {c}
         /\ d # c
         /\ inbox[c] = <<notified[1]>>
         /\ inbox[d] = <<>>

\* C17: a read of player_names, gm_names, staff_names or receiver_names returns
\* the names in sorted order.
C17_NameListsAreSorted ==
    names_read # Idle =>
      \A i, j \in 1..Len(names_read.names) :
         i < j => str_lt(names_read.names[i], names_read.names[j])

----------------------------------------------------------------------------
(* The 'Shared with' suffix of a private roll *)

PrivateAnnounced == priv.phase = "announced"

\* the receivers handed to the private roll
Named == {priv.receivers[i] : i \in 1..Len(priv.receivers)}

\* C18: when no receiver other than the roller is given the suffix is the self-only
\* one, and otherwise it lists names, at least one and each a receiver's.
C18_SelfOnlyIffNoOtherReceiver ==
    PrivateAnnounced =>
      IF Named \ {priv.roll.character} = {}
      THEN priv.receiver_suffix = SelfOnly
      ELSE /\ priv.receiver_suffix.text = "(Shared with: %s)"
           /\ Len(priv.receiver_suffix.names) > 0
           /\ \A ob \in Named :
                \E i \in 1..Len(priv.receiver_suffix.names) :
                   priv.receiver_suffix.names[i] \in {str(ob), highlight(str(ob))}
           /\ \A i \in 1..Len(priv.receiver_suffix.names) :
                \E ob \in Named :
                   priv.receiver_suffix.names[i] \in {str(ob), highlight(str(ob))}

\* only the roller is named, and the suffix is the self-only one
C18_Witness ==
    /\ PrivateAnnounced
    /\ Named = {priv.roll.character}
    /\ priv.receiver_suffix = SelfOnly

\* the names listed in the suffix, and the receiver behind each
Listing == priv.receiver_suffix.names
ListedAt(i) == CHOOSE ob \in Named : Listing[i] \in {str(ob), highlight(str(ob))}

\* C19: in the listing every staff receiver's name is highlighted and no other is,
\* every staff name comes after every other name, and the staff names and the other
\* names are each in sorted order.
C19_StaffHighlightedLastAndSorted ==
    (PrivateAnnounced /\ priv.receiver_suffix # SelfOnly) =>
      /\ \A ob \in Named :
           \E i \in 1..Len(Listing) :
              Listing[i] = IF check_permstring(world, ob) THEN highlight(str(ob)) ELSE str(ob)
      /\ \A i, j \in 1..Len(Listing) :
           i < j =>
             /\ check_permstring(world, ListedAt(i)) => check_permstring(world, ListedAt(j))
             /\ check_permstring(world, ListedAt(i)) = check_permstring(world, ListedAt(j))
                  => str_lt(str(ListedAt(i)), str(ListedAt(j)))

----------------------------------------------------------------------------
(* Who is told of a private group check *)

\* the texts a character received as roll messages, in order
RollTexts(c) ==
    LET got == SelectSeq(inbox[c], LAMBDA e : e[2] = RollOption)
    IN [i \in 1..Len(got) |-> got[i][1]]

\* every result message of the group roll reached the character
ToldResults(c) ==
    /\ Len(RollTexts(c)) >= Len(group.roll.result_msgs)
    /\ SubSeq(RollTexts(c), 1, Len(group.roll.result_msgs)) = group.roll.result_msgs

\* C20: after a private group check every result message has been delivered to the
\* caller, to each player among the helpers, and to the GMs and staff in the room.
C20_PrivateGroupRollReachesAll ==
    (group.phase = "announced" /\ group.private_roll) =>
      /\ ToldResults(group.roll.character)
      /\ \A i \in 1..Len(group.helpers) :
           ~check_staff_or_gm(world, group.helpers[i]) => ToldResults(group.helpers[i])
      /\ \A c \in world.contents : check_staff_or_gm(world, c) => ToldResults(c)

----------------------------------------------------------------------------
(* C21: the order of the ranked groups *)

\* C21: in the ranking of a contested check no roll of a later group is greater than
\* a roll of an earlier group, so that no roll is greater than every roll of the
\* first group, whatever the order the rolls were made in.
C21_NoLaterGroupBeatsAnEarlier ==
    Ranked =>
        LET res == contest.results
        IN  /\ \A g, h \in 1..Len(res) :
                  g < h => \A i \in 1..Len(res[g]), j \in 1..Len(res[h]) :
                              ~SimpleRoll_gt(res[h][j], res[g][i])
            /\ res # <<>> =>
                  \E i \in 1..Len(res[1]) :
                     \A k \in 1..Len(contest.rolls) :
                        ~SimpleRoll_gt(contest.rolls[k], res[1][i])

----------------------------------------------------------------------------
(* C22, C23: who is sent a private roll *)

\* the character holds the private message
Sent(c) == \E i \in 1..Len(inbox[c]) : inbox[c][i] = <<priv.private_msg, RollOption>>

\* C22: a private roll reaches no character twice, and reaches only the roller, the
\* receivers given and the staff in the roller's room: a bystander who is neither
\* staff nor a receiver gets nothing, and staff who roll or are receivers get one copy.
C22_PrivateRollOnceAndOnlyToItsAudience ==
    PrivateAnnounced =>
      \A c \in Cast :
         /\ Len(inbox[c]) <= 1
         /\ inbox[c] # <<>> =>
              /\ Sent(c)
              /\ \/ c = priv.roll.character
                 \/ c \in Named
                 \/ c \in world.contents /\ check_permstring(world, c)

\* a staff roller and a staff receiver in the room with one copy each, a bystander
\* in the room with none
C22_Witness ==
    /\ PrivateAnnounced
    /\ check_permstring(world, priv.roll.character)
    /\ Len(inbox[priv.roll.character]) = 1
    /\ \E s, b \in world.contents :
         /\ s # priv.roll.character /\ s \in Named /\ check_permstring(world, s)
         /\ Len(inbox[s]) = 1 /\ Sent(s)
         /\ b \notin Named /\ ~check_permstring(world, b) /\ inbox[b] = <<>>

\* C23: every receiver named in the suffix shown to the roller is sent the private
\* message, with or without a location of the roller.
C23_EveryoneListedIsSent ==
    (PrivateAnnounced /\ priv.receiver_suffix # SelfOnly) =>
      \A i \in 1..Len(Listing) : Sent(ListedAt(i))

----------------------------------------------------------------------------
(* C24: generate() called again *)

\* C24: after any sequence of generate() calls, with the room, the name resolution
\* and the flags changing in between, every receiver is in the pool that the source
\* yields at the latest call and matches a flag that is set at that call.
C24_ReceiversReflectTheLatestCall ==
    generated =>
      \A c \in notifier.receiver_set :
         /\ c \in PoolOf(notifier, world)
         /\ MatchesActiveFlag(notifier, world, c)

----------------------------------------------------------------------------
(* C25: a contested check that is refused or names someone unknown *)

\* some name of the list is not found
UnknownListed ==
    \E i \in 1..Len(command.lhslist) : search(world, command.lhslist[i]) = Unset

\* C25: a contested check called by a character that is neither staff nor GM rolls
\* for no one and announces nothing to the room, and the caller receives the error
\* message and nothing else; in the name-list form, when a listed name is not found,
\* no roll is made for anyone.
C25_RefusedContestRollsNothing ==
    command.phase = "done" =>
      /\ ~check_staff_or_gm(world, command.caller) =>
           /\ contest = Idle
           /\ room_out = <<>>
           /\ inbox[command.caller] = << <<NotGMing, NoOption>> >>
           /\ \A c \in Chars \ {command.caller} : inbox[c] = <<>>
      /\ (~command.here /\ UnknownListed) => contest = Idle

\* a player, in a room, names a character that is found, with a check string that
\* parses: told the error, and nothing is rolled
C25_Witness ==
    /\ command.phase = "done"
    /\ world.role[command.caller] = "player"
    /\ world.has_room
    /\ ~command.here /\ command.rhs /\ command.parses
    /\ command.lhslist # <<>> /\ ~UnknownListed
    /\ command.outcome = "raised"
    /\ inbox[command.caller] = << <<NotGMing, NoOption>> >>
    /\ contest = Idle

====
